---- MODULE Spec2Model ----
(***************************************************************************)
(* Pay-slip PDF pipeline: split a document into one-page files, extract    *)
(* the employee identity and the pay period of each page, file each page   *)
(* under a per-employee folder, and report the task state.                 *)
(*                                                                         *)
(* Three entry points live in the repository and all are modelled:         *)
(*   - the Celery/FastAPI task   src/app/tasks.py  (impl = "celery")       *)
(*   - the Django/Celery task    src/pdf_processor_api/pdf_processor/      *)
(*                               tasks.py          (impl = "django")       *)
(*   - the single-page function  src/app/utils.py, process_pay_slip_pdf    *)
(*                                                 (impl = "legacy")       *)
(*                                                                         *)
(* Specifications:                                                         *)
(*   Spec, FairSpec   one upload handled by one of the entry points        *)
(*   RerunSpec        Spec, where a Celery task id may run again           *)
(*   ConcurrentSpec   two Celery tasks with their own uploads, interleaved *)
(*   ExtractSpec      one call of an extraction function on a text         *)
(*                                                 (impl = "extract")      *)
(***************************************************************************)
EXTENDS Integers, Sequences, FiniteSets, TLC

(***************************************************************************)
(* Bounds of the model.                                                    *)
(***************************************************************************)
MaxPages == 2
MaxClock == 1
\* the runs of one task id
MaxRuns == 2
\* the pages of each of two uploads processed at the same time
MaxConcurrentPages == 1
\* the tokens of a text handed to an identity extractor
MaxTextLen == 3
\* the phrases of a text handed to a period extractor
MaxPhrases == 2

(***************************************************************************)
(* Generic helpers.                                                        *)
(***************************************************************************)
Min(S) == CHOOSE x \in S : \A y \in S : x <= y

Last(s) == s[Len(s)]

Front(s) == SubSeq(s, 1, Len(s) - 1)

\* F(v), with v evaluated once
With(v, F(_)) == CHOOSE r \in {F(x) : x \in {v}} : TRUE

SeqsUpTo(S, n) == UNION {[1..k -> S] : k \in 0..n}

(***************************************************************************)
(* Page text.  A text is a sequence of tokens, written in the document     *)
(* separated by single spaces on one line.  TLC cannot look inside a       *)
(* string, so TokInfo tabulates what the regular expressions of the source *)
(* see of each token of the vocabulary, and a text carries it per token:   *)
(*   t   the token as written                                              *)
(*   k   "W" letters only (two or more), "D" digits only,                  *)
(*       "T" a date dd/mm/yy.., "X" anything else, "P" the word Période,   *)
(*       which only the period patterns are applied to                     *)
(*   up  the token upper-cased (str.upper)                                 *)
(*   cs  the case of a word: "upper", "capital" (Xxxx) or "lower"          *)
(*   g   the digit groups of the token (one for "D", three for "T")        *)
(*   mon the month code of the French month name the token contains        *)
(***************************************************************************)
Tok(t, k, up, cs, g, mon) == [t |-> t, k |-> k, up |-> up, cs |-> cs, g |-> g, mon |-> mon]

TokInfo(t) ==
    CASE t = "DUPONT"     -> Tok(t, "W", "DUPONT", "upper", <<>>, "")
      [] t = "MARTIN"     -> Tok(t, "W", "MARTIN", "upper", <<>>, "")
      [] t = "Jean"       -> Tok(t, "W", "JEAN", "capital", <<>>, "")
      [] t = "Septembre"  -> Tok(t, "W", "SEPTEMBRE", "capital", <<>>, "SEP")
      [] t = "du"         -> Tok(t, "W", "DU", "lower", <<>>, "")
      [] t = "au"         -> Tok(t, "W", "AU", "lower", <<>>, "")
      [] t = "à"          -> Tok(t, "X", "À", "lower", <<>>, "")
      [] t = "00123"      -> Tok(t, "D", "00123", "", << <<0, 0, 1, 2, 3>> >>, "")
      [] t = "0456"       -> Tok(t, "D", "0456", "", << <<0, 4, 5, 6>> >>, "")
      [] t = "7"          -> Tok(t, "D", "7", "", << <<7>> >>, "")
      [] t = "123456"     -> Tok(t, "D", "123456", "", << <<1, 2, 3, 4, 5, 6>> >>, "")
      [] t = "2025"       -> Tok(t, "D", "2025", "", << <<2, 0, 2, 5>> >>, "")
      [] t = "01/09/2025" -> Tok(t, "T", "01/09/2025", "", << <<0, 1>>, <<0, 9>>, <<2, 0, 2, 5>> >>, "")
      [] t = "30/09/2025" -> Tok(t, "T", "30/09/2025", "", << <<3, 0>>, <<0, 9>>, <<2, 0, 2, 5>> >>, "")
      [] t = "01/10/25"   -> Tok(t, "T", "01/10/25", "", << <<0, 1>>, <<1, 0>>, <<2, 5>> >>, "")
      [] t = "01/13/2025" -> Tok(t, "T", "01/13/2025", "", << <<0, 1>>, <<1, 3>>, <<2, 0, 2, 5>> >>, "")
      [] t = "01/09/202"  -> Tok(t, "T", "01/09/202", "", << <<0, 1>>, <<0, 9>>, <<2, 0, 2>> >>, "")
      [] t = "Unknown"    -> Tok(t, "W", "UNKNOWN", "capital", <<>>, "")
      [] t = "Période"    -> Tok(t, "P", "PÉRIODE", "capital", <<>>, "")
      [] t = "2026"       -> Tok(t, "D", "2026", "", << <<2, 0, 2, 6>> >>, "")

Vocabulary ==
    {"DUPONT", "MARTIN", "Jean", "Septembre", "du", "au", "à", "00123", "0456",
     "7", "123456", "2025", "01/09/2025", "30/09/2025", "01/10/25",
     "01/13/2025", "01/09/202"}

(***************************************************************************)
(* The texts the pages of the documents carry.                             *)
(***************************************************************************)
Text(words) == [i \in 1..Len(words) |-> TokInfo(words[i])]

TextA == Text(<<"DUPONT", "Jean", "00123", "du", "01/09/2025", "au", "30/09/2025">>)

TextB == Text(<<"MARTIN", "Jean", "0456">>)

TextIdFirst == Text(<<"00123", "DUPONT", "Jean">>)

TextNoId == Text(<<"Septembre", "2025">>)

NoText == <<>>

\* what extract_text_from_pdf returns when the OCR gives nothing
UnknownText == Text(<<"Unknown">>)

PageTexts == {TextA, TextB, TextIdFirst, TextNoId, NoText, UnknownText}

\* every text of up to MaxTextLen tokens of the vocabulary
Texts == {Text(words) : words \in SeqsUpTo(Vocabulary, MaxTextLen)}

\* the phrases of a period: date ranges with a start date of month 10 (year
\* of two digits), of month 13 or with a year of three digits, a month name,
\* years, a stray number
PeriodPhrases ==
    UNION {{<<"Période", "du", d, "au", "30/09/2025">>, <<"du", d, "au", "30/09/2025">>,
            <<d, "à", "30/09/2025">>, <<"Période", "du", d>>}
             : d \in {"01/10/25", "01/13/2025", "01/09/202"}}
      \cup {<<"Septembre">>, <<"2026">>, <<"7">>}

RECURSIVE Flatten(_)
Flatten(ps) == IF ps = <<>> THEN <<>> ELSE ps[1] \o Flatten(Tail(ps))

\* every text of up to MaxPhrases phrases
PeriodTexts == {Text(Flatten(ps)) : ps \in SeqsUpTo(PeriodPhrases, MaxPhrases)}

\* datetime.now(): the instants the model distinguishes (the wall clock may jump)
NowAt(c) ==
    CASE c = 0 -> [hms |-> "235959", month |-> 9, year |-> 2025]
      [] c = 1 -> [hms |-> "235959", month |-> 12, year |-> 2025]
      [] OTHER -> [hms |-> "000000", month |-> 1, year |-> 2026]

Times == {NowAt(c) : c \in 0..MaxClock}

Kind(s, i) == IF i \in 1..Len(s) THEN s[i].k ELSE "none"

IsWord(s, i) == Kind(s, i) = "W"

Up(s, i) == s[i].up

FirstGroup(s, i) == s[i].g[1]

LastGroup(s, i) == Last(s[i].g)

\* the last n elements of d (all of d when it is shorter)
TailN(d, n) == IF Len(d) <= n THEN d ELSE SubSeq(d, Len(d) - n + 1, Len(d))

\* the first n elements of d (all of d when it is shorter)
HeadN(d, n) == IF Len(d) <= n THEN d ELSE SubSeq(d, 1, n)

\* int("00123") = 123
RECURSIVE DigitsToInt(_)
DigitsToInt(d) == IF d = <<>> THEN 0 ELSE 10 * DigitsToInt(Front(d)) + Last(d)

\* the digit string itself: <<2, 0, 2, 5>> is "2025"
RECURSIVE DigitsStr(_)
DigitsStr(d) == IF d = <<>> THEN "" ELSE DigitsStr(Front(d)) \o ToString(Last(d))

\* the end of the run of words that starts at word a
RunEnd(s, a) ==
    CHOOSE b \in a..Len(s) : (\A k \in a..b : IsWord(s, k)) /\ ~IsWord(s, b + 1)

\* re.sub(r'\s+', '_', group.strip()).upper() of the words a..b
RECURSIVE JoinUp(_, _, _)
JoinUp(s, a, b) ==
    IF a > b THEN "" ELSE IF a = b THEN Up(s, a) ELSE Up(s, a) \o "_" \o JoinUp(s, a + 1, b)

(***************************************************************************)
(* A capture group is a name (w) or a string of digits (d).                *)
(***************************************************************************)
NameGrp(w) == [num |-> FALSE, d |-> <<>>, w |-> w]

NumGrp(d) == [num |-> TRUE, d |-> d, w |-> ""]

NoMatch == [ok |-> FALSE, g |-> <<>>]

Match(g1, g2, g3) == [ok |-> TRUE, g |-> <<g1, g2, g3>>]

\* token i is a whole number of lo..hi digits:  \s+(\d{lo,hi})\b
IsNum(s, i, lo, hi) == Kind(s, i) = "D" /\ Len(FirstGroup(s, i)) \in lo..hi

\* token i holds 4 or 5 digits that end at a word boundary:  (\d{4,5})\b
End45(s, i) == Kind(s, i) \in {"D", "T"} /\ Len(LastGroup(s, i)) >= 4

\* a run of two or more words starts at a
Names(s, a) == IsWord(s, a) /\ IsWord(s, a + 1)

(***************************************************************************)
(* src/app/utils.py, extract_employee_info: re.search(patterns[i], TEXT)   *)
(* on the upper-cased text, as the leftmost match of a backtracking        *)
(* matcher.  NAME is [A-Z][A-Z\s-]*[A-Z]: one or more whole words.         *)
(***************************************************************************)
\* patterns[0]  (NAME)\s+(NAME)\s+(\d{4,5})\b
\* patterns[3]  ([A-Z\s-]{2,}?)\s+([A-Z\s-]{2,}?)\s+(\d{4,5})\b
NamesThenId45(s) ==
    {a \in 1..Len(s) : Names(s, a) /\ IsNum(s, RunEnd(s, a) + 1, 4, 5)}

\* patterns[1]  (NAME)\s+(NAME).*?(\d{4,5})\b
NamesThenLater45(s) ==
    {a \in 1..Len(s) : Names(s, a) /\ \E k \in (a + 2)..Len(s) : End45(s, k)}

\* patterns[2]  ([A-Z]{2,})\s+([A-Z]{2,})\s+(\d{4,5})\b
TwoWordsThenId45(s) ==
    {a \in 1..Len(s) : Names(s, a) /\ IsNum(s, a + 2, 4, 5)}

\* patterns[4]  (\d{4,5})\b.*?(?<= )([A-Z\s-]{2,}?)\s+([A-Z\s-]{2,}?)(?=\s|$)
Id45ThenLaterNames(s) ==
    {k \in 1..Len(s) : End45(s, k) /\ \E a \in (k + 1)..Len(s) : Names(s, a)}

\* patterns[5]  (\d{1,5})\s+(NAME)\s+(NAME)\b
IdThenNames(s) ==
    {k \in 1..Len(s) : Kind(s, k) \in {"D", "T"} /\ Names(s, k + 1)}

\* patterns[6]  (NAME)\s+(NAME)\s+(\d{1,5})\b
NamesThenId(s) ==
    {a \in 1..Len(s) :
        /\ Names(s, a)
        /\ \/ IsNum(s, RunEnd(s, a) + 1, 1, 5)
           \/ Kind(s, RunEnd(s, a) + 1) = "T"}

patterns(i, s) ==
    CASE i = 0 ->
           LET hits == NamesThenId45(s)
               a    == Min(hits)
               b    == RunEnd(s, a)
           IN  IF hits = {} THEN NoMatch
               ELSE Match(NameGrp(JoinUp(s, a, b - 1)), NameGrp(Up(s, b)),
                          NumGrp(FirstGroup(s, b + 1)))
      [] i = 1 ->
           LET hits == NamesThenLater45(s)
               a    == Min(hits)
               b    == RunEnd(s, a)
               k    == Min({j \in (b + 1)..Len(s) : End45(s, j)})
           IN  IF hits = {} THEN NoMatch
               ELSE Match(NameGrp(JoinUp(s, a, b - 1)), NameGrp(Up(s, b)),
                          NumGrp(TailN(LastGroup(s, k), 5)))
      [] i = 2 ->
           LET hits == TwoWordsThenId45(s)
               a    == Min(hits)
           IN  IF hits = {} THEN NoMatch
               ELSE Match(NameGrp(Up(s, a)), NameGrp(Up(s, a + 1)),
                          NumGrp(FirstGroup(s, a + 2)))
      [] i = 3 ->
           LET hits == NamesThenId45(s)
               a    == Min(hits)
               b    == RunEnd(s, a)
           IN  IF hits = {} THEN NoMatch
               ELSE Match(NameGrp(Up(s, a)), NameGrp(JoinUp(s, a + 1, b)),
                          NumGrp(FirstGroup(s, b + 1)))
      [] i = 4 ->
           LET hits == Id45ThenLaterNames(s)
               k    == Min(hits)
               a    == Min({j \in (k + 1)..Len(s) : Names(s, j)})
           IN  IF hits = {} THEN NoMatch
               ELSE Match(NumGrp(TailN(LastGroup(s, k), 5)), NameGrp(Up(s, a)),
                          NameGrp(Up(s, a + 1)))
      [] i = 5 ->
           LET hits == IdThenNames(s)
               k    == Min(hits)
               b    == RunEnd(s, k + 1)
           IN  IF hits = {} THEN NoMatch
               ELSE Match(NumGrp(TailN(LastGroup(s, k), 5)),
                          NameGrp(JoinUp(s, k + 1, b - 1)), NameGrp(Up(s, b)))
      [] i = 6 ->
           LET hits == NamesThenId(s)
               a    == Min(hits)
               b    == RunEnd(s, a)
           IN  IF hits = {} THEN NoMatch
               ELSE Match(NameGrp(JoinUp(s, a, b - 1)), NameGrp(Up(s, b)),
                          NumGrp(FirstGroup(s, b + 1)))

NumPatterns == 7

(***************************************************************************)
(* The value of a call: a result, or an exception.                         *)
(***************************************************************************)
None == [tag |-> "none"]

Raise == [tag |-> "raise"]

Info(matricule, nom, prenom) ==
    [tag |-> "info", matricule |-> matricule, nom |-> nom, prenom |-> prenom]

\* str(int(group)): ValueError when the group holds no digits
StrInt(grp) == IF grp.num THEN ToString(DigitsToInt(grp.d)) ELSE "ValueError"

\* a name group holds the digits when the pattern captured them there
GrpText(grp) == IF grp.num THEN DigitsStr(grp.d) ELSE grp.w

\* lines 85-94: the groups of the matched pattern; only patterns[5] is taken
\* as (matricule, nom, prenom), every other one as (nom, prenom, matricule)
GroupsToInfo(i, g) ==
    IF i = 5
    THEN IF g[1].num THEN Info(StrInt(g[1]), GrpText(g[2]), GrpText(g[3])) ELSE Raise
    ELSE IF g[3].num THEN Info(StrInt(g[3]), GrpText(g[1]), GrpText(g[2])) ELSE Raise

\* a loop in which the last pattern that matches returns
RECURSIVE last_match(_, _)
last_match(i, text) ==
    IF i >= NumPatterns THEN None
    ELSE LET later == last_match(i + 1, text)
             m     == patterns(i, text)
         IN  IF later # None THEN later
             ELSE IF m.ok THEN GroupsToInfo(i, m.g) ELSE None

\* lines 84-96: for i, pattern in enumerate(patterns): the first match returns
RECURSIVE first_match(_, _)
first_match(i, text) ==
    IF i >= NumPatterns THEN None
    ELSE LET m == patterns(i, text)
         IN  IF m.ok THEN GroupsToInfo(i, m.g) ELSE first_match(i + 1, text)

\* extract_employee_info on the texts of the documents, computed once
employee_info_of == [text \in PageTexts |-> first_match(0, text)]

extract_employee_info(text) ==
    IF text \in PageTexts THEN employee_info_of[text] ELSE first_match(0, text)

(***************************************************************************)
(* The wall clock: datetime.now() as [hms, month, year].                   *)
(***************************************************************************)
mois_abbr ==
    <<"JAN", "FEV", "MAR", "AVR", "MAI", "JUN", "JUL", "AOU", "SEP", "OCT", "NOV", "DEC">>

TokAt(s, i) == IF i \in 1..Len(s) THEN s[i].t ELSE ""

IsDate(s, i) == Kind(s, i) = "T"

(***************************************************************************)
(* src/app/utils.py, extract_period_from_dates: the leftmost match of      *)
(* period_patterns[i] on the text as written (case-sensitive).             *)
(***************************************************************************)
\* period_patterns[0]  Période\s+du\s+DATE\s+au\s+DATE
\* period_patterns[1]  du\s+DATE\s+au\s+DATE
\* period_patterns[2]  DATE\s+à\s+DATE      the start date is token d
PeriodStarts(i, s) ==
    CASE i = 0 -> {d \in 1..Len(s) : /\ TokAt(s, d - 2) = "Période" /\ TokAt(s, d - 1) = "du"
                                     /\ IsDate(s, d) /\ TokAt(s, d + 1) = "au"
                                     /\ IsDate(s, d + 2)}
      [] i = 1 -> {d \in 1..Len(s) : /\ TokAt(s, d - 1) = "du" /\ IsDate(s, d)
                                     /\ TokAt(s, d + 1) = "au" /\ IsDate(s, d + 2)}
      [] i = 2 -> {d \in 1..Len(s) : IsDate(s, d) /\ TokAt(s, d + 1) = "à" /\ IsDate(s, d + 2)}

NumPeriodPatterns == 3

\* lines 121-123: a year of two digits gets the prefix "20"
ExpandYear(yy) == IF Len(yy) = 2 THEN "20" \o DigitsStr(yy) ELSE DigitsStr(yy)

\* line 126: the month is a number of 1..12
ValidMonth(mm) == DigitsToInt(mm) >= 1 /\ DigitsToInt(mm) <= 12

\* the patterns whose leftmost match has a valid month (lines 112-135)
PeriodHits(s) ==
    {i \in 0..(NumPeriodPatterns - 1) :
        /\ PeriodStarts(i, s) # {}
        /\ ValidMonth(s[Min(PeriodStarts(i, s))].g[2])}

\* the first 20\d{2} of a digit group (line 139), <<>> when it has none
Year20(d) ==
    LET at == {i \in 1..(Len(d) - 3) : d[i] = 2 /\ d[i + 1] = 0}
    IN  IF at = {} THEN <<>> ELSE SubSeq(d, Min(at), Min(at) + 3)

RECURSIVE GroupsYear20(_)
GroupsYear20(g) ==
    IF g = <<>> THEN <<>>
    ELSE IF Year20(g[1]) # <<>> THEN Year20(g[1]) ELSE GroupsYear20(Tail(g))

TokYear20(t) == GroupsYear20(t.g)

DefaultYear == "2025"

period_from_dates(text, now) ==
    LET hits   == PeriodHits(text)
        months == {i \in 1..Len(text) : text[i].mon # ""}
        years  == {i \in 1..Len(text) : TokYear20(text[i]) # <<>>}
    IN  IF hits # {}
        THEN LET d == text[Min(PeriodStarts(Min(hits), text))].g
             IN  <<mois_abbr[DigitsToInt(d[2])], ExpandYear(d[3])>>
        ELSE IF months # {}
        THEN <<text[Min(months)].mon,
               IF years # {} THEN DigitsStr(TokYear20(text[Min(years)])) ELSE DefaultYear>>
        ELSE <<mois_abbr[now.month], ToString(now.year)>>

\* extract_period_from_dates on the texts of the documents, computed once
period_of == [text \in PageTexts, now \in Times |-> period_from_dates(text, now)]

extract_period_from_dates(text, now) ==
    IF text \in PageTexts /\ now \in Times THEN period_of[text, now]
    ELSE period_from_dates(text, now)

(***************************************************************************)
(* src/pdf_processor_api/pdf_processor/utils/pdf_renamer.py:               *)
(* find_employee_info and find_period_info, on the text as written.        *)
(***************************************************************************)
UpperWord(s, i) == IsWord(s, i) /\ s[i].cs = "upper"

CapitalWord(s, i) == IsWord(s, i) /\ s[i].cs = "capital"

UpperRunEnd(s, a) ==
    CHOOSE b \in a..Len(s) : (\A k \in a..b : UpperWord(s, k)) /\ ~UpperWord(s, b + 1)

\* ([A-Z][A-Z\s-]*[A-Z])\s+([A-Z][a-z]+)\s+  starts at a
NomPrenom(s, a) == UpperWord(s, a) /\ CapitalWord(s, UpperRunEnd(s, a) + 1)

\* patterns[0]  NOM Prénom (\d{5})\s+(.+)     patterns[1]  NOM Prénom (\d{4,5})
renamer_patterns(i, s) ==
    LET C == IF i = 0
             THEN {a \in 1..Len(s) : /\ NomPrenom(s, a)
                                     /\ IsNum(s, UpperRunEnd(s, a) + 2, 5, 5)
                                     /\ UpperRunEnd(s, a) + 3 <= Len(s)}
             ELSE {a \in 1..Len(s) : /\ NomPrenom(s, a)
                                     /\ Kind(s, UpperRunEnd(s, a) + 2) = "D"
                                     /\ Len(FirstGroup(s, UpperRunEnd(s, a) + 2)) >= 4}
    IN  IF C = {} THEN NoMatch
        ELSE LET a == Min(C)
                 b == UpperRunEnd(s, a)
             IN  Match(NameGrp(JoinUp(s, a, b)), NameGrp(Up(s, b + 1)),
                       NumGrp(HeadN(FirstGroup(s, b + 2), 5)))

renamer_first_match(text) ==
    LET hits == {i \in 0..1 : renamer_patterns(i, text).ok}
    IN  IF hits = {} THEN None
        ELSE LET g == renamer_patterns(Min(hits), text).g
             IN  Info(StrInt(g[3]), g[1].w, g[2].w)

\* find_employee_info on the texts of the documents, computed once
renamer_info_of == [text \in PageTexts |-> renamer_first_match(text)]

find_employee_info(text) ==
    IF text \in PageTexts THEN renamer_info_of[text] ELSE renamer_first_match(text)

\* period_pattern  Période\s+du\s+(\d{2})/(\d{2})/(\d{2,4})
renamer_period(text, now) ==
    LET C == {d \in 1..Len(text) : /\ TokAt(text, d - 2) = "Période"
                                   /\ TokAt(text, d - 1) = "du" /\ IsDate(text, d)}
    IN  IF C # {}
        THEN LET d == text[Min(C)].g
             IN  <<IF DigitsToInt(d[2]) - 1 \in 0..11 THEN mois_abbr[DigitsToInt(d[2])] ELSE "SEP",
                   ExpandYear(d[3])>>
        ELSE <<mois_abbr[now.month], ToString(now.year)>>

\* find_period_info on the texts of the documents, computed once
renamer_period_of == [text \in PageTexts, now \in Times |-> renamer_period(text, now)]

find_period_info(text, now) ==
    IF text \in PageTexts /\ now \in Times THEN renamer_period_of[text, now]
    ELSE renamer_period(text, now)

(***************************************************************************)
(* Paths and the filesystem.  A path is a sequence of components, each a   *)
(* name split into stem and extension; an absolute path starts with Root.  *)
(* A relative path is relative to the worker's current directory.          *)
(***************************************************************************)
Comp(stem, ext) == [stem |-> stem, ext |-> ext]

Root == Comp("/", "")

IsAbs(p) == p # <<>> /\ p[1] = Root

\* os.path.join(a, b): an absolute b discards a
os_path_join(a, b) == IF IsAbs(b) THEN b ELSE a \o b

\* os.path.splitext(p) = (base, ext)
os_path_splitext(p) == <<[p EXCEPT ![Len(p)].ext = ""], Last(p).ext>>

\* f"{base}_{counter}{ext}"
Suffixed(base, counter, ext) ==
    [base EXCEPT ![Len(base)] = Comp(@.stem \o "_" \o ToString(counter), ext)]

\* os.path.dirname(p)
Parent(p) == Front(p)

IsPrefix(p, q) == Len(p) <= Len(q) /\ SubSeq(q, 1, Len(p)) = p

Prefixes(p) == {SubSeq(p, 1, k) : k \in 1..Len(p)}

\* f"{n:03d}"
Pad3(n) ==
    IF n < 10 THEN "00" \o ToString(n)
    ELSE IF n < 100 THEN "0" \o ToString(n) ELSE ToString(n)

VARIABLES
    dirs,       \* the directories that exist (a set of paths)
    files,      \* the files that exist: path -> content
    impl,       \* which entry point of the repository runs
    pytesseract_available,  \* `import pytesseract` succeeds in the worker
    celery,     \* src/app/tasks.py: the locals and the Celery state of each task
    django,     \* pdf_processor/tasks.py: the locals and the ProcessingTask row
    legacy,     \* src/app/utils.py, process_pay_slip_pdf: its arguments and returns
    call        \* one call of an extraction function: its arguments and its return

vars == <<dirs, files, impl, pytesseract_available, celery, django, legacy, call>>

\* os.path.exists(p)
os_path_exists(p) == p \in dirs \/ p \in DOMAIN files

\* os.makedirs(p, exist_ok=True): p and every missing parent
makedirs(D, p) == D \cup Prefixes(p)

\* shutil.rmtree(p)
rmtree_dirs(D, p) == {q \in D : ~IsPrefix(p, q)}

rmtree_files(F, p) == [q \in {x \in DOMAIN F : ~IsPrefix(p, x)} |-> F[q]]

\* os.remove(p)
remove(F, p) == [q \in DOMAIN F \ {p} |-> F[q]]

\* new_doc.save(p), shutil.copy2(src, p): p is created or overwritten
write(F, p, content) == [q \in DOMAIN F \cup {p} |-> IF q = p THEN content ELSE F[q]]

\* shutil.move(src, dst) of a file onto a path that is no directory: a rename
\* that replaces dst
move_file(F, src, dst) == remove(write(F, dst, F[src]), src)

\* shutil.move(src, dst) of a directory: into dst when dst is a directory
real_dst(src, dst) == IF dst \in dirs THEN dst \o <<Last(src)>> ELSE dst

Rebase(q, src, dst) == dst \o SubSeq(q, Len(src) + 1, Len(q))

move_tree_dirs(D, src, dst) ==
    {q \in D : ~IsPrefix(src, q)} \cup {Rebase(q, src, dst) : q \in {x \in D : IsPrefix(src, x)}}
        \cup Prefixes(dst)

move_tree_files(F, src, dst) ==
    LET moved == {x \in DOMAIN F : IsPrefix(src, x)}
        kept  == DOMAIN F \ moved
    IN  [q \in kept \cup {Rebase(x, src, dst) : x \in moved} |->
            IF q \in kept THEN F[q]
            ELSE F[CHOOSE x \in moved : Rebase(x, src, dst) = q]]

(***************************************************************************)
(* Documents.  A page carries its number in the uploaded document and what *)
(* the render engine (native text layer) and the recognition engine (OCR)  *)
(* give for it: a text, or an exception.                                   *)
(***************************************************************************)
Read(text) == [ok |-> TRUE, text |-> text]

ReadRaises == [ok |-> FALSE, text |-> <<>>]

\* (native, ocr) of a page
PageKinds ==
    { <<Read(TextA), ReadRaises>>,         \* digital page; OCR is not needed
      <<Read(TextB), ReadRaises>>,         \* another employee
      <<Read(NoText), Read(TextA)>>,       \* scanned page, identity by OCR
      <<ReadRaises, ReadRaises>>,          \* unreadable page
      <<Read(TextIdFirst), Read(TextNoId)>>,  \* identity extraction raises
      <<Read(TextNoId), Read(TextA)>> }    \* no identity in the text layer

Page(no, kind) == [no |-> no, native |-> kind[1], ocr |-> kind[2]]

\* a file's content: a document, or bytes fitz cannot open
Doc(pages) == [openable |-> TRUE, pages |-> pages]

Corrupt == [openable |-> FALSE, pages |-> <<>>]

Documents ==
    {Corrupt} \cup
    {Doc([i \in 1..Len(ks) |-> Page(i, ks[i])]) : ks \in SeqsUpTo(PageKinds, MaxPages)}

(***************************************************************************)
(* src/app/tasks.py: process_pdf_task, the Celery task.                    *)
(***************************************************************************)
TaskIds == {"t1"}

\* two uploads whose tasks run at the same time
ConcurrentTaskIds == {"t1", "t2"}

\* tempfile.gettempdir(): an absolute directory
temp_base == <<Root, Comp("tmp", "")>>

\* one temporary directory for every task
shared_temp_dir(t) == os_path_join(temp_base, <<Comp("pdf_task", "")>>)

\* line 27: f'pdf_task_{task_id}' in the temporary directory
task_temp_dir(t) == os_path_join(temp_base, <<Comp("pdf_task_" \o t, "")>>)

pages_dir(t) == os_path_join(task_temp_dir(t), <<Comp("pages", "")>>)

final_dir(t) == os_path_join(task_temp_dir(t), <<Comp("final", "")>>)

output_root == <<Comp("output", "")>>

output_dir(t) == os_path_join(output_root, <<Comp("processed_payslips_" \o t, "")>>)

\* src/app/main.py, process_pdf: f"uploads/{file_id}.pdf"
uploads_dir == <<Comp("uploads", "")>>

upload_path(t) == os_path_join(uploads_dir, <<Comp("upload_" \o t, ".pdf")>>)

\* f"temp_page_{page_num + 1:03d}.pdf" in output_dir
temp_page_path(dir, n) == os_path_join(dir, <<Comp("temp_page_" \o Pad3(n), ".pdf")>>)

\* split_pdf_one_page_per_file: the files written once the first k pages are saved
\* a split that saves the first page of the source in every file
split_first_page_only(F, doc, dir, k) ==
    [q \in DOMAIN F \cup {temp_page_path(dir, n) : n \in 1..k} |->
        IF \E n \in 1..k : q = temp_page_path(dir, n)
        THEN Doc(<<doc.pages[1]>>)
        ELSE F[q]]

split_files(F, doc, dir, k) ==
    [q \in DOMAIN F \cup {temp_page_path(dir, n) : n \in 1..k} |->
        IF \E n \in 1..k : q = temp_page_path(dir, n)
        THEN Doc(<<doc.pages[CHOOSE n \in 1..k : q = temp_page_path(dir, n)]>>)
        ELSE F[q]]

NoPeriod == <<>>

Extracted(e, p, ocr) == [employee_info |-> e, period_info |-> p, ocr_called |-> ocr]

\* lines 54-68: the native text of the page file; any exception is swallowed
native_extract(pg, now) ==
    LET employee_info == extract_employee_info(pg.native.text)
    IN  IF ~pg.native.ok \/ pg.native.text = NoText
        THEN Extracted(None, NoPeriod, FALSE)
        ELSE IF employee_info = Raise
        THEN Extracted(None, NoPeriod, FALSE)
        ELSE Extracted(employee_info, extract_period_from_dates(pg.native.text, now), FALSE)

\* lines 70-92: OCR, only when no identity was found and pytesseract imports
ocr_extract(pg, prev, avail, now) ==
    LET employee_info == extract_employee_info(pg.ocr.text)
    IN  IF prev.employee_info.tag = "info" \/ ~avail
        THEN prev
        ELSE IF ~pg.ocr.ok \/ employee_info = Raise
        THEN Extracted(prev.employee_info, prev.period_info, TRUE)
        ELSE Extracted(employee_info,
                       IF prev.period_info = NoPeriod
                       THEN extract_period_from_dates(pg.ocr.text, now)
                       ELSE prev.period_info,
                       TRUE)

FallbackPeriod == <<"SEP", "2025">>

\* lines 94-106: (matricule, nom, prenom, period_info) of the page
\* a fallback identity made of the time of day alone
identity_without_page(ex, idx, now) ==
    IF ex.employee_info.tag # "info"
    THEN [matricule |-> "UNKNOWN_" \o now.hms,
          nom |-> "UNKNOWN", prenom |-> "UNKNOWN",
          period_info |-> IF ex.period_info = NoPeriod THEN FallbackPeriod
                          ELSE ex.period_info]
    ELSE [matricule |-> ex.employee_info.matricule,
          nom |-> ex.employee_info.nom,
          prenom |-> ex.employee_info.prenom,
          period_info |-> ex.period_info]

identity(ex, idx, now) ==
    IF ex.employee_info.tag # "info"
    THEN [matricule |-> "UNKNOWN_" \o now.hms \o "_" \o Pad3(idx + 1),
          nom |-> "UNKNOWN_" \o Pad3(idx + 1),
          prenom |-> "UNKNOWN_" \o Pad3(idx + 1),
          period_info |-> IF ex.period_info = NoPeriod THEN FallbackPeriod
                          ELSE ex.period_info]
    ELSE [matricule |-> ex.employee_info.matricule,
          nom |-> ex.employee_info.nom,
          prenom |-> ex.employee_info.prenom,
          period_info |-> ex.period_info]

\* src/app/utils.py, generate_pay_slip_filename
generate_pay_slip_filename(employee_info, period_info, page_num) ==
    IF employee_info.tag = "info"
    THEN Comp(employee_info.matricule \o "_" \o employee_info.nom \o "_"
                \o employee_info.prenom \o "_" \o period_info[1] \o period_info[2], ".pdf")
    ELSE Comp("UNKNOWN_" \o Pad3(page_num) \o "_PAYSLIP_" \o period_info[1]
                \o period_info[2], ".pdf")

\* a loop that never looks at the directory
take_first_name(final_path, original_path, employee_dir, counter) == final_path

\* lines 120-126: while os.path.exists(final_path): ... counter += 1
RECURSIVE collision_loop(_, _, _, _)
collision_loop(final_path, original_path, employee_dir, counter) ==
    IF ~os_path_exists(final_path) THEN final_path
    ELSE collision_loop(
             os_path_join(employee_dir,
                          Suffixed(os_path_splitext(original_path)[1], counter,
                                   os_path_splitext(original_path)[2])),
             original_path, employee_dir, counter + 1)

\* every page in one folder named by the first employee of the task
placement_in_first_folder(t, ex, idx, now) ==
    With(identity(ex, idx, now), LAMBDA id :
    With(IF celery[t].log = <<>>
         THEN os_path_join(final_dir(t), <<Comp(id.matricule, "")>>)
         ELSE celery[t].log[1].employee_dir, LAMBDA employee_dir :
    With(generate_pay_slip_filename(ex.employee_info, id.period_info, idx + 1), LAMBDA filename :
    With(os_path_join(employee_dir, <<filename>>), LAMBDA final_path :
       [matricule |-> id.matricule, nom |-> id.nom, prenom |-> id.prenom,
        period_info |-> id.period_info, employee_dir |-> employee_dir,
        filename |-> filename, original_path |-> final_path,
        final_path |-> collision_loop(final_path, final_path, employee_dir, 1)]))))

\* lines 108-126: the folder and the final path of a page
placement(t, ex, idx, now) ==
    With(identity(ex, idx, now), LAMBDA id :
    With(os_path_join(final_dir(t), <<Comp(id.matricule, "")>>), LAMBDA employee_dir :
    With(generate_pay_slip_filename(ex.employee_info, id.period_info, idx + 1), LAMBDA filename :
    With(os_path_join(employee_dir, <<filename>>), LAMBDA final_path :
       [matricule |-> id.matricule, nom |-> id.nom, prenom |-> id.prenom,
        period_info |-> id.period_info, employee_dir |-> employee_dir,
        filename |-> filename, original_path |-> final_path,
        final_path |-> collision_loop(final_path, final_path, employee_dir, 1)]))))

\* upload, run and earlier are history: the document that was uploaded, the
\* number of this run of the task id, and the output of the runs before it
CeleryInit(t, doc) ==
    [pc |-> "start", state |-> "PENDING", meta |-> "", input_pdf_path |-> upload_path(t),
     page_files |-> <<>>, idx |-> 0, processed_files |-> <<>>,
     employee_folders |-> {}, result |-> None, log |-> <<>>,
     upload |-> doc, run |-> 1, earlier |-> <<>>]

Set(t, r) == celery' = [celery EXCEPT ![t] = r]

\* lines 24-32 without the update_state of line 35
begin_without_update(t) ==
    /\ impl = "celery" /\ celery[t].pc = "start"
    /\ dirs' = makedirs(makedirs(dirs, pages_dir(t)), final_dir(t))
    /\ Set(t, [celery[t] EXCEPT !.pc = "split"])
    /\ UNCHANGED <<files, impl, pytesseract_available, call, django, legacy>>

\* lines 24-35: the temporary directories, then update_state 'Splitting PDF'
Begin(t) ==
    /\ impl = "celery" /\ celery[t].pc = "start"
    /\ dirs' = makedirs(makedirs(dirs, pages_dir(t)), final_dir(t))
    /\ Set(t, [celery[t] EXCEPT !.pc = "split", !.state = "PROGRESS",
                                !.meta = "Splitting PDF"])
    /\ UNCHANGED <<files, impl, pytesseract_available, call, django, legacy>>

CanOpen(path) == path \in DOMAIN files /\ files[path].openable

\* line 36, split_pdf_one_page_per_file returns
Split(t) ==
    /\ impl = "celery" /\ celery[t].pc = "split"
    /\ CanOpen(celery[t].input_pdf_path)
    /\ LET doc == files[celery[t].input_pdf_path]
           n   == Len(doc.pages)
       IN  /\ files' = split_files(files, doc, pages_dir(t), n)
           /\ Set(t, [celery[t] EXCEPT
                          !.pc = "loop",
                          !.page_files = [i \in 1..n |-> temp_page_path(pages_dir(t), i)],
                          !.idx = 0, !.processed_files = <<>>,
                          !.employee_folders = {}])
    /\ dirs' = makedirs(dirs, pages_dir(t))
    /\ UNCHANGED <<impl, pytesseract_available, call, django, legacy>>

\* line 36 raises: fitz cannot open the input, or saving page k + 1 fails
SplitFails(t) ==
    /\ impl = "celery" /\ celery[t].pc = "split"
    /\ \/ /\ ~CanOpen(celery[t].input_pdf_path)
          /\ files' = files
       \/ /\ CanOpen(celery[t].input_pdf_path)
          /\ \E k \in 0..(Len(files[celery[t].input_pdf_path].pages) - 1) :
                files' = split_files(files, files[celery[t].input_pdf_path], pages_dir(t), k)
    /\ dirs' = makedirs(dirs, pages_dir(t))
    /\ Set(t, [celery[t] EXCEPT !.pc = "except"])
    /\ UNCHANGED <<impl, pytesseract_available, call, django, legacy>>

\* lines 45-48: the loop takes the next page and reports it
PageProgress(t) ==
    /\ impl = "celery" /\ celery[t].pc = "loop"
    /\ celery[t].idx < Len(celery[t].page_files)
    /\ Set(t, [celery[t] EXCEPT
                   !.pc = "page", !.state = "PROGRESS",
                   !.meta = "Processing pay slip " \o ToString(celery[t].idx + 1) \o "/"
                              \o ToString(Len(celery[t].page_files))])
    /\ UNCHANGED <<dirs, files, impl, pytesseract_available, call, django, legacy>>

\* what lines 50-126 compute for the page at idx, read at time now
\* src/app/utils.py lines 152-156: extract_period_from_dates finds no date
\* range with a valid month and no month name, and reads datetime.now()
reads_today(text) == PeriodHits(text) = {} /\ \A i \in 1..Len(text) : text[i].mon = ""

NoClock == <<>>

\* the time the page read: line 96 for a fallback identity, or the
\* extract_period_from_dates of line 65 or of line 90 when it reads the clock
clock_read(pg, native, ex, now) ==
    IF \/ ex.employee_info.tag # "info"
       \/ native.period_info # NoPeriod /\ reads_today(pg.native.text)
       \/ /\ native.period_info = NoPeriod /\ ex.period_info # NoPeriod
          /\ reads_today(pg.ocr.text)
    THEN now ELSE NoClock

\* a loop that takes the page files from the last to the first
page_plan_last_first(t, now) ==
    With(celery[t].page_files[Len(celery[t].page_files) - celery[t].idx], LAMBDA page_file :
    With(files[page_file].pages[1], LAMBDA pg :
    With(native_extract(pg, now), LAMBDA native :
    With(ocr_extract(pg, native, pytesseract_available, now), LAMBDA ex :
       [page_file |-> page_file, no |-> pg.no, ex |-> ex,
        clock |-> clock_read(pg, native, ex, now),
        pl |-> placement(t, ex, celery[t].idx, now)]))))

page_plan(t, now) ==
    With(celery[t].page_files[celery[t].idx + 1], LAMBDA page_file :
    With(files[page_file].pages[1], LAMBDA pg :
    With(native_extract(pg, now), LAMBDA native :
    With(ocr_extract(pg, native, pytesseract_available, now), LAMBDA ex :
       [page_file |-> page_file, no |-> pg.no, ex |-> ex,
        clock |-> clock_read(pg, native, ex, now),
        pl |-> placement(t, ex, celery[t].idx, now)]))))

\* lines 50-129: extraction, folder, collision loop, shutil.move
ProcessPage(t) ==
    /\ impl = "celery" /\ celery[t].pc = "page"
    /\ \E plan \in {page_plan(t, now) : now \in Times} :
              /\ dirs' = makedirs(dirs, plan.pl.employee_dir)
              /\ files' = move_file(files, plan.page_file, plan.pl.final_path)
              /\ Set(t, [celery[t] EXCEPT
                      !.pc = "loop", !.idx = @ + 1,
                      !.employee_folders = @ \cup {plan.pl.matricule},
                      !.processed_files = Append(@, plan.pl.final_path),
                      !.log = Append(@, [no |-> plan.no,
                                         found |-> plan.ex.employee_info.tag = "info",
                                         clock |-> plan.clock,
                                         ocr_called |-> plan.ex.ocr_called,
                                         matricule |-> plan.pl.matricule,
                                         period_info |-> plan.pl.period_info,
                                         filename |-> plan.pl.filename,
                                         employee_dir |-> plan.pl.employee_dir,
                                         final_path |-> plan.pl.final_path])])
    /\ UNCHANGED <<impl, pytesseract_available, call, django, legacy>>

\* line 128 raises: the page file cannot be moved
PageMoveFails(t) ==
    /\ impl = "celery" /\ celery[t].pc = "page"
    /\ \E plan \in {page_plan(t, now) : now \in Times} :
          dirs' = makedirs(dirs, plan.pl.employee_dir)
    /\ Set(t, [celery[t] EXCEPT !.pc = "except"])
    /\ UNCHANGED <<files, impl, pytesseract_available, call, django, legacy>>

\* lines 131-133: every page is placed
Organize(t) ==
    /\ impl = "celery" /\ celery[t].pc = "loop"
    /\ celery[t].idx = Len(celery[t].page_files)
    /\ Set(t, [celery[t] EXCEPT !.pc = "move", !.state = "PROGRESS",
                                !.meta = "Organizing files by employee"])
    /\ UNCHANGED <<dirs, files, impl, pytesseract_available, call, django, legacy>>

\* line 134 left out: the tree stays in the temporary directory
skip_move_to_output(t) ==
    /\ impl = "celery" /\ celery[t].pc = "move"
    /\ Set(t, [celery[t] EXCEPT !.pc = "remove_input"])
    /\ UNCHANGED <<dirs, files, impl, pytesseract_available, call, django, legacy>>

\* line 134: shutil.move(final_dir, output_dir)
MoveToOutput(t) ==
    /\ impl = "celery" /\ celery[t].pc = "move"
    /\ ~os_path_exists(real_dst(final_dir(t), output_dir(t)))
    /\ dirs' = move_tree_dirs(dirs, final_dir(t), real_dst(final_dir(t), output_dir(t)))
    /\ files' = move_tree_files(files, final_dir(t), real_dst(final_dir(t), output_dir(t)))
    /\ Set(t, [celery[t] EXCEPT !.pc = "remove_input"])
    /\ UNCHANGED <<impl, pytesseract_available, call, django, legacy>>

\* line 134 raises: the destination exists, or the copy to the output volume
\* fails, at once or after it created the destination directory
MoveToOutputFails(t) ==
    /\ impl = "celery" /\ celery[t].pc = "move"
    /\ \/ dirs' = dirs
       \/ /\ ~os_path_exists(real_dst(final_dir(t), output_dir(t)))
          /\ dirs' = makedirs(dirs, real_dst(final_dir(t), output_dir(t)))
    /\ Set(t, [celery[t] EXCEPT !.pc = "except"])
    /\ UNCHANGED <<files, impl, pytesseract_available, call, django, legacy>>

\* a return whose result is never stored
return_not_stored(t) ==
    /\ impl = "celery" /\ celery[t].pc = "remove_input"
    /\ celery[t].input_pdf_path \in DOMAIN files
    /\ files' = remove(files, celery[t].input_pdf_path)
    /\ Set(t, [celery[t] EXCEPT !.pc = "done"])
    /\ UNCHANGED <<dirs, impl, pytesseract_available, call, django, legacy>>

\* lines 136-144: os.remove(input_pdf_path); return {...}: Celery stores SUCCESS
Return(t) ==
    /\ impl = "celery" /\ celery[t].pc = "remove_input"
    /\ celery[t].input_pdf_path \in DOMAIN files
    /\ files' = remove(files, celery[t].input_pdf_path)
    /\ Set(t, [celery[t] EXCEPT
                   !.pc = "done", !.state = "SUCCESS",
                   !.result = [tag |-> "result", status |-> "SUCCESS",
                               output_dir |-> output_dir(t),
                               file_count |-> Len(celery[t].processed_files),
                               employee_count |-> Cardinality(celery[t].employee_folders)]])
    /\ UNCHANGED <<dirs, impl, pytesseract_available, call, django, legacy>>

\* lines 146-152: clean up, raise: Celery stores FAILURE
Except(t) ==
    /\ impl = "celery" /\ celery[t].pc = "except"
    /\ dirs' = IF os_path_exists(task_temp_dir(t)) THEN rmtree_dirs(dirs, task_temp_dir(t))
               ELSE dirs
    /\ files' = LET F == IF os_path_exists(task_temp_dir(t))
                         THEN rmtree_files(files, task_temp_dir(t)) ELSE files
                IN  IF os_path_exists(celery[t].input_pdf_path)
                    THEN remove(F, celery[t].input_pdf_path) ELSE F
    /\ Set(t, [celery[t] EXCEPT !.pc = "done", !.state = "FAILURE"])
    /\ UNCHANGED <<impl, pytesseract_available, call, django, legacy>>

\* lines 17-22, src/app/main.py lines 34-41: the same upload is saved again at
\* the same path and the task runs again under the same request id; the result
\* backend keeps the state of the run before until the new run updates it
Rerun(t) ==
    /\ impl = "celery" /\ celery[t].pc = "done" /\ celery[t].run < MaxRuns
    /\ files' = write(files, upload_path(t), celery[t].upload)
    /\ Set(t, [CeleryInit(t, celery[t].upload) EXCEPT
                   !.state = celery[t].state, !.meta = celery[t].meta,
                   !.result = celery[t].result, !.run = celery[t].run + 1,
                   !.earlier = [q \in {x \in DOMAIN files : IsPrefix(output_dir(t), x)}
                                  |-> files[q]]])
    /\ UNCHANGED <<dirs, impl, pytesseract_available, call, django, legacy>>

(***************************************************************************)
(* src/pdf_processor_api/pdf_processor: the Django task, PDFSplitter and   *)
(* PDFRenamer.                                                             *)
(***************************************************************************)
django_task_id == "d1"

\* settings.MEDIA_ROOT
media_root == <<Root, Comp("media", "")>>

\* views.py, ProcessPDFView.post: temp_uploads/<uuid>_<name>
pdf_path == os_path_join(media_root, <<Comp("temp_uploads", ""), Comp("upload_d1", ".pdf")>>)

split_dir == os_path_join(media_root, <<Comp("split_pages", ""), Comp(django_task_id, "")>>)

renamed_dir == os_path_join(media_root, <<Comp("renamed_pages", ""), Comp(django_task_id, "")>>)

\* pdf_splitter.py: f"page_{page_num + 1:03d}.pdf"
page_filename(n) == Comp("page_" \o Pad3(n), ".pdf")

page_path(n) == os_path_join(split_dir, <<page_filename(n)>>)

\* PDFSplitter.split_pdf_by_page: the files written once the first k pages are saved
splitter_files(F, doc, k) ==
    [q \in DOMAIN F \cup {page_path(n) : n \in 1..k} |->
        IF \E n \in 1..k : q = page_path(n)
        THEN Doc(<<doc.pages[CHOOSE n \in 1..k : q = page_path(n)]>>)
        ELSE F[q]]

\* PDFRenamer.extract_text, then extract_with_ocr when the text is blank and
\* use_ocr is set (rename_pdf, lines 168-173); every exception gives ""
renamer_text(pg, use_ocr, avail) ==
    LET text == IF pg.native.ok THEN pg.native.text ELSE NoText
    IN  IF text = NoText /\ use_ocr
        THEN IF avail /\ pg.ocr.ok THEN pg.ocr.text ELSE NoText
        ELSE text

\* rename_pdf, lines 195-200
RECURSIVE renamer_collision_loop(_, _, _, _)
renamer_collision_loop(output_path, new_name, out_dir, counter) ==
    IF ~os_path_exists(output_path) THEN output_path
    ELSE renamer_collision_loop(
             os_path_join(out_dir,
                          Suffixed(os_path_splitext(<<new_name>>)[1], counter,
                                   os_path_splitext(<<new_name>>)[2])),
             new_name, out_dir, counter + 1)

\* rename_pdf, lines 168-200: what it decides for a page, read at time now
rename_plan(pg, use_ocr, avail, now) ==
    With(renamer_text(pg, use_ocr, avail), LAMBDA text :
    With(find_employee_info(text), LAMBDA employee_info :
    With(find_period_info(text, now), LAMBDA period_info :
       IF employee_info.tag # "info"
       THEN [success |-> FALSE, error |-> "Informations employé non trouvées",
             employee_info |-> employee_info, period_info |-> period_info,
             new_name |-> Comp("", ""), output_path |-> <<>>]
       ELSE With(Comp(employee_info.matricule \o "_" \o employee_info.nom \o "_"
                        \o employee_info.prenom \o "_" \o period_info[1]
                        \o period_info[2], ".pdf"), LAMBDA new_name :
               [success |-> TRUE, error |-> "",
                employee_info |-> employee_info, period_info |-> period_info,
                new_name |-> new_name,
                output_path |-> renamer_collision_loop(
                                    os_path_join(renamed_dir, <<new_name>>),
                                    new_name, renamed_dir, 1)]))))

\* tasks.py, lines 83-96 and 110-117: the ProcessedPage row, with the number
\* of the page in the upload (no) and the name rename_pdf first tried (planned)
ProcessedPage(page_number, no, plan, success, error) ==
    [page_number |-> page_number, no |-> no, original_name |-> page_filename(page_number),
     planned |-> plan.new_name,
     new_name |-> IF success THEN Last(plan.output_path) ELSE Comp("", ""),
     matricule |-> IF success THEN plan.employee_info.matricule ELSE "",
     file_path |-> IF success THEN plan.output_path ELSE <<>>,
     success |-> success, error_message |-> error]

DjangoInit(use_ocr) ==
    [pc |-> "start", status |-> "pending", use_ocr |-> use_ocr, total_pages |-> 0,
     processed_pages |-> 0, split_files |-> <<>>, next |-> 1, pages |-> <<>>,
     successful_pages |-> 0, failed_pages |-> 0, result_data |-> None,
     error_message |-> ""]

\* lines 29-34: the task row is loaded and marked
DjangoStart ==
    /\ impl = "django" /\ django.pc = "start"
    /\ django' = [django EXCEPT !.pc = "split", !.status = "processing"]
    /\ UNCHANGED <<dirs, files, impl, pytesseract_available, call, celery, legacy>>

\* lines 41-57: split_pdf_by_page succeeds
DjangoSplit ==
    /\ impl = "django" /\ django.pc = "split"
    /\ CanOpen(pdf_path)
    /\ LET doc == files[pdf_path]
       IN  /\ files' = splitter_files(files, doc, Len(doc.pages))
           /\ django' = [django EXCEPT !.pc = "loop", !.total_pages = Len(doc.pages),
                                       !.split_files = [i \in 1..Len(doc.pages) |-> page_path(i)],
                                       !.next = 1]
    /\ dirs' = makedirs(dirs, split_dir)
    /\ UNCHANGED <<impl, pytesseract_available, call, celery, legacy>>

\* lines 46-52: split_pdf_by_page returns success False (saving page k + 1
\* fails, or the upload cannot be opened any more): the task is marked failed
DjangoSplitFails ==
    /\ impl = "django" /\ django.pc = "split"
    /\ \/ /\ ~CanOpen(pdf_path)
          /\ files' = files
       \/ /\ CanOpen(pdf_path)
          /\ \E k \in 0..(Len(files[pdf_path].pages) - 1) :
                files' = splitter_files(files, files[pdf_path], k)
    /\ dirs' = makedirs(dirs, split_dir)
    /\ django' = [django EXCEPT !.pc = "done", !.status = "failed",
                                !.error_message = "Erreur de séparation"]
    /\ UNCHANGED <<impl, pytesseract_available, call, celery, legacy>>

DjangoPlan(now) ==
    rename_plan(files[django.split_files[django.next]].pages[1], django.use_ocr,
                pytesseract_available, now)

\* lines 74-121 with rename_pdf returning: one page is renamed (copied) or reported
\* as not renamed, its row is created and the counters are saved
DjangoRenamePage ==
    /\ impl = "django" /\ django.pc = "loop"
    /\ django.next <= Len(django.split_files)
    /\ \E plan \in {DjangoPlan(now) : now \in Times} :
          LET src == django.split_files[django.next]
          IN  /\ dirs' = IF plan.success THEN makedirs(dirs, renamed_dir) ELSE dirs
              /\ files' = IF plan.success THEN write(files, plan.output_path, files[src])
                          ELSE files
              /\ django' = [django EXCEPT
                      !.next = @ + 1,
                      !.pages = Append(@, ProcessedPage(django.next, files[src].pages[1].no,
                                                        plan, plan.success, plan.error)),
                      !.successful_pages = IF plan.success THEN @ + 1 ELSE @,
                      !.failed_pages = IF plan.success THEN @ ELSE @ + 1,
                      !.processed_pages = django.next]
    /\ UNCHANGED <<impl, pytesseract_available, call, celery, legacy>>

\* a page whose copy fails is recorded but counted neither as renamed nor as failed
copy_fails_uncounted ==
    /\ impl = "django" /\ django.pc = "loop"
    /\ django.next <= Len(django.split_files)
    /\ \E plan \in {DjangoPlan(now) : now \in Times} :
          LET src == django.split_files[django.next]
          IN  /\ plan.success
              /\ dirs' = makedirs(dirs, renamed_dir)
              /\ django' = [django EXCEPT
                      !.next = @ + 1,
                      !.pages = Append(@, ProcessedPage(django.next, files[src].pages[1].no,
                                                        plan, FALSE, "copy failed")),
                      !.processed_pages = django.next]
    /\ UNCHANGED <<files, impl, pytesseract_available, call, celery, legacy>>

\* rename_pdf, lines 202-204 and 219-224: shutil.copy2 raises; the page is reported
\* as not renamed
DjangoCopyFails ==
    /\ impl = "django" /\ django.pc = "loop"
    /\ django.next <= Len(django.split_files)
    /\ \E plan \in {DjangoPlan(now) : now \in Times} :
          LET src == django.split_files[django.next]
          IN  /\ plan.success
              /\ dirs' = makedirs(dirs, renamed_dir)
              /\ django' = [django EXCEPT
                      !.next = @ + 1,
                      !.pages = Append(@, ProcessedPage(django.next, files[src].pages[1].no,
                                                        plan, FALSE, "copy failed")),
                      !.failed_pages = @ + 1,
                      !.processed_pages = django.next]
    /\ UNCHANGED <<files, impl, pytesseract_available, call, celery, legacy>>

\* success_rate of result_data (line 134), in hundredths of a percent
success_rate(successful, total) == IF total > 0 THEN (successful * 10000) \div total ELSE 0

\* lines 123-150: the task is completed and the upload removed
DjangoFinalize ==
    /\ impl = "django" /\ django.pc = "loop"
    /\ django.next > Len(django.split_files)
    /\ django' = [django EXCEPT
            !.pc = "done", !.status = "completed",
            !.result_data = [tag |-> "result",
                             successful_pages |-> django.successful_pages,
                             failed_pages |-> django.failed_pages,
                             total_pages |-> django.total_pages,
                             success_rate |-> success_rate(django.successful_pages,
                                                           django.total_pages)]]
    /\ files' = IF os_path_exists(pdf_path) THEN remove(files, pdf_path) ELSE files
    /\ UNCHANGED <<dirs, impl, pytesseract_available, call, celery, legacy>>

\* lines 152-168: an exception escapes the loop (the database refuses a save):
\* the task is marked failed, the upload removed, the exception re-raised
DjangoExcept ==
    /\ impl = "django" /\ django.pc = "loop"
    /\ django' = [django EXCEPT !.pc = "done", !.status = "failed",
                                !.error_message = "exception"]
    /\ files' = IF os_path_exists(pdf_path) THEN remove(files, pdf_path) ELSE files
    /\ UNCHANGED <<dirs, impl, pytesseract_available, call, celery, legacy>>

(***************************************************************************)
(* src/app/utils.py: process_pay_slip_pdf (alias process_single_page_pdf), *)
(* the single-page entry point, called on page files one after the other.  *)
(* The module imports pytesseract when it is loaded.                       *)
(***************************************************************************)
\* len(text) of a text written with single spaces
RECURSIVE TextChars(_)
TextChars(text) ==
    IF text = <<>> THEN 0
    ELSE Len(text[1].t) + (IF Len(text) > 1 THEN 1 ELSE 0) + TextChars(Tail(text))

OcrThreshold == 50

\* extract_text_with_fallback, lines 21-37: the text of one page, or the
\* exception that get_text or the OCR call raises
page_text(pg, use_ocr) ==
    IF ~pg.native.ok THEN Raise
    ELSE IF use_ocr /\ TextChars(pg.native.text) < OcrThreshold
    THEN IF pg.ocr.ok THEN Read(pg.ocr.text) ELSE Raise
    ELSE Read(pg.native.text)

\* extract_text_with_fallback: the first two pages at most; "" on any exception
extract_text_with_fallback(doc, use_ocr) ==
    IF ~doc.openable THEN NoText
    ELSE LET n  == Min({2, Len(doc.pages)})
             t1 == IF n >= 1 THEN page_text(doc.pages[1], use_ocr) ELSE Read(NoText)
             t2 == IF n >= 2 THEN page_text(doc.pages[2], use_ocr) ELSE Read(NoText)
         IN  IF t1 = Raise \/ t2 = Raise THEN NoText ELSE t1.text \o t2.text

\* extract_text_from_pdf: OCR of the first page, stripped; "Unknown" when it is
\* empty or anything raises
extract_text_from_pdf(doc) ==
    IF doc.openable /\ Len(doc.pages) >= 1 /\ doc.pages[1].ocr.ok
          /\ doc.pages[1].ocr.text # NoText
    THEN doc.pages[1].ocr.text
    ELSE UnknownText

\* extract_employee_info_from_ocr: None on any exception
extract_employee_info_from_ocr(doc) ==
    LET employee_info == extract_employee_info(doc.pages[1].ocr.text)
    IN  IF doc.openable /\ Len(doc.pages) >= 1 /\ doc.pages[1].ocr.ok
        THEN IF employee_info = Raise THEN None ELSE employee_info
        ELSE None

\* process_pay_slip_pdf, lines 246-252: while os.path.exists(new_path): ...
RECURSIVE pay_slip_collision_loop(_, _, _, _)
pay_slip_collision_loop(new_path, original_new_path, out_dir, counter) ==
    IF ~os_path_exists(new_path) THEN new_path
    ELSE pay_slip_collision_loop(
             os_path_join(out_dir,
                          Suffixed(os_path_splitext(original_new_path)[1], counter,
                                   os_path_splitext(original_new_path)[2])),
             original_new_path, out_dir, counter + 1)

\* process_pay_slip_pdf, lines 215-252: everything before the move
process_pay_slip_pdf(doc, page_num, out_dir, use_ocr, now) ==
    With(extract_text_with_fallback(doc, use_ocr), LAMBDA text0 :
    With(IF text0 = NoText THEN extract_text_from_pdf(doc) ELSE text0, LAMBDA text :
    With(extract_period_from_dates(text, now), LAMBDA period_info :
    With(IF ~use_ocr THEN extract_employee_info_from_ocr(doc) ELSE None, LAMBDA by_ocr :
    With(extract_text_with_fallback(doc, TRUE), LAMBDA text_ocr :
    \* text_ocr ends with a newline or is empty; the stripped text never does
    With(IF (text0 = NoText \/ text_ocr # text) /\ extract_employee_info(text_ocr) # Raise
         THEN extract_employee_info(text_ocr) ELSE None, LAMBDA forced :
    With(IF by_ocr.tag = "info" THEN by_ocr ELSE forced, LAMBDA employee_info :
    With(generate_pay_slip_filename(employee_info, period_info, page_num), LAMBDA new_filename :
    With(os_path_join(out_dir, <<new_filename>>), LAMBDA new_path :
       [employee_info |-> employee_info, period_info |-> period_info,
        new_filename |-> new_filename,
        new_path |-> pay_slip_collision_loop(new_path, new_path, out_dir, 1)])))))))))

legacy_pages_dir == <<Comp("pages", "")>>

\* the output_dir argument: relative to the working directory, or absolute
LegacyOutputDirs == { <<Comp("out", "")>>, <<Root, Comp("out", "")>> }

LegacyInit(out_dir, use_ocr, n) ==
    [output_dir |-> out_dir, use_ocr |-> use_ocr,
     page_files |-> [i \in 1..n |-> temp_page_path(legacy_pages_dir, i)],
     next |-> 1, log |-> <<>>]

\* what the call on the next page file computes before the move, read at time now
PaySlipPlan(now) ==
    LET pdf == legacy.page_files[legacy.next]
    IN  process_pay_slip_pdf(files[pdf], files[pdf].pages[1].no, legacy.output_dir,
                             legacy.use_ocr, now)

\* one call process_pay_slip_pdf(page_file, page_num, output_dir, use_ocr):
\* lines 215-257; shutil.move raises when the directory of new_path is missing
ProcessPaySlip ==
    /\ impl = "legacy"
    /\ legacy.next <= Len(legacy.page_files)
    /\ \E plan \in {PaySlipPlan(now) : now \in Times} :
          LET pdf == legacy.page_files[legacy.next]
              ok  == Parent(plan.new_path) \in dirs
          IN  /\ files' = IF ok THEN move_file(files, pdf, plan.new_path) ELSE files
              /\ legacy' = [legacy EXCEPT
                      !.next = @ + 1,
                      !.log = Append(@, [no |-> files[pdf].pages[1].no,
                                         found |-> plan.employee_info.tag = "info",
                                         filename |-> plan.new_filename,
                                         target_dir |-> legacy.output_dir,
                                         new_path |-> plan.new_path,
                                         raised |-> ~ok])]
    /\ UNCHANGED <<dirs, impl, pytesseract_available, call, celery, django>>

(***************************************************************************)
(* The system: one upload, processed by the deployed implementation.       *)
(***************************************************************************)
\* no extraction function is being called
NoCall == [fn |-> "none"]

DeployedDirs ==
    Prefixes(temp_base) \cup {uploads_dir, output_root} \cup Prefixes(Parent(pdf_path))
      \cup {legacy_pages_dir} \cup LegacyOutputDirs

Init ==
    /\ impl \in {"celery", "django", "legacy"}
    /\ pytesseract_available \in BOOLEAN
    \* src/app/utils.py imports pytesseract at load time: no code of src/app
    \* runs without it
    /\ impl \in {"celery", "legacy"} => pytesseract_available
    /\ dirs = DeployedDirs
    /\ call = NoCall
    /\ \E doc \in Documents, use_ocr \in BOOLEAN, out_dir \in LegacyOutputDirs :
          /\ celery = [t \in TaskIds |-> CeleryInit(t, doc)]
          \* views.py validates the upload before the Django task is created;
          \* the single-page entry point is given the pages of a split document
          /\ impl \in {"django", "legacy"} => doc.openable
          /\ impl = "django" => Len(doc.pages) >= 1
          /\ impl = "celery" => ~use_ocr
          /\ impl # "legacy" => out_dir = <<Comp("out", "")>>
          /\ django = DjangoInit(use_ocr /\ impl = "django")
          /\ legacy = LegacyInit(out_dir, use_ocr /\ impl = "legacy",
                                 IF impl = "legacy" THEN Len(doc.pages) ELSE 0)
          /\ files = CASE impl = "celery" -> [q \in {upload_path(t) : t \in TaskIds} |-> doc]
                       [] impl = "django" -> [q \in {pdf_path} |-> doc]
                       [] impl = "legacy" ->
                            split_files(<<>>, doc, legacy_pages_dir, Len(doc.pages))

CeleryNext(t) ==
    \/ Begin(t) \/ Split(t) \/ SplitFails(t) \/ PageProgress(t) \/ ProcessPage(t)
    \/ PageMoveFails(t) \/ Organize(t) \/ MoveToOutput(t) \/ MoveToOutputFails(t)
    \/ Return(t) \/ Except(t)

DjangoNext ==
    \/ DjangoStart \/ DjangoSplit \/ DjangoSplitFails \/ DjangoRenamePage
    \/ DjangoCopyFails \/ DjangoFinalize \/ DjangoExcept

Next == (\E t \in TaskIds : CeleryNext(t)) \/ DjangoNext \/ ProcessPaySlip

Spec == Init /\ [][Next]_vars

\* a worker that can take a step eventually takes one
FairSpec == Spec /\ WF_vars(Next)

\* the uploads of the concurrent tasks: pages of one employee and unreadable
\* pages, so that the two tasks compute the same names
ConcurrentDocuments ==
    {Corrupt} \cup
    {Doc([i \in 1..Len(ks) |-> Page(i, ks[i])]) :
        ks \in SeqsUpTo({<<Read(TextA), ReadRaises>>, <<ReadRaises, ReadRaises>>},
                        MaxConcurrentPages)}

(***************************************************************************)
(* The extraction functions, each called on its own on a text.             *)
(***************************************************************************)
ExtractInit ==
    /\ impl = "extract" /\ pytesseract_available = TRUE
    /\ dirs = DeployedDirs
    /\ files = <<>>
    /\ celery = [t \in TaskIds |-> CeleryInit(t, Corrupt)]
    /\ django = DjangoInit(FALSE)
    /\ legacy = LegacyInit(<<Comp("out", "")>>, FALSE, 0)
    /\ \/ \E text \in Texts : call = [fn |-> "pending", of |-> "identity", text |-> text]
       \/ \E text \in PeriodTexts : call = [fn |-> "pending", of |-> "period", text |-> text]
       \/ \E doc \in Documents, use_ocr \in BOOLEAN :
             call = [fn |-> "pending", of |-> "text", doc |-> doc, use_ocr |-> use_ocr]

\* src/app/utils.py, extract_employee_info(text)
ExtractEmployeeInfo ==
    /\ call.fn = "pending" /\ call.of = "identity"
    /\ call' = [fn |-> "extract_employee_info", text |-> call.text,
                ret |-> extract_employee_info(call.text)]
    /\ UNCHANGED <<dirs, files, impl, pytesseract_available, celery, django, legacy>>

\* pdf_renamer.py, PDFRenamer.find_employee_info(text)
FindEmployeeInfo ==
    /\ call.fn = "pending" /\ call.of = "identity"
    /\ call' = [fn |-> "find_employee_info", text |-> call.text,
                ret |-> find_employee_info(call.text)]
    /\ UNCHANGED <<dirs, files, impl, pytesseract_available, celery, django, legacy>>

\* src/app/utils.py, extract_period_from_dates(text), called at time now
ExtractPeriodFromDates ==
    /\ call.fn = "pending" /\ call.of = "period"
    /\ \E now \in Times :
          call' = [fn |-> "extract_period_from_dates", text |-> call.text, now |-> now,
                   ret |-> extract_period_from_dates(call.text, now)]
    /\ UNCHANGED <<dirs, files, impl, pytesseract_available, celery, django, legacy>>

\* pdf_renamer.py, PDFRenamer.find_period_info(text), called at time now
FindPeriodInfo ==
    /\ call.fn = "pending" /\ call.of = "period"
    /\ \E now \in Times :
          call' = [fn |-> "find_period_info", text |-> call.text, now |-> now,
                   ret |-> find_period_info(call.text, now)]
    /\ UNCHANGED <<dirs, files, impl, pytesseract_available, celery, django, legacy>>

\* src/app/utils.py, extract_text_with_fallback(pdf_path, use_ocr)
ExtractTextWithFallback ==
    /\ call.fn = "pending" /\ call.of = "text"
    /\ call' = [fn |-> "extract_text_with_fallback", doc |-> call.doc,
                use_ocr |-> call.use_ocr,
                ret |-> extract_text_with_fallback(call.doc, call.use_ocr)]
    /\ UNCHANGED <<dirs, files, impl, pytesseract_available, celery, django, legacy>>

\* src/app/utils.py, extract_text_from_pdf(pdf_path)
ExtractTextFromPdf ==
    /\ call.fn = "pending" /\ call.of = "text"
    /\ call' = [fn |-> "extract_text_from_pdf", doc |-> call.doc,
                ret |-> extract_text_from_pdf(call.doc)]
    /\ UNCHANGED <<dirs, files, impl, pytesseract_available, celery, django, legacy>>

\* pdf_renamer.py, PDFRenamer.extract_with_ocr(pdf_path): the recognised text
\* of the first page; "" when pytesseract is missing or anything raises
ExtractWithOcr ==
    /\ call.fn = "pending" /\ call.of = "text"
    /\ \E avail \in BOOLEAN :
          call' = [fn |-> "extract_with_ocr", doc |-> call.doc, avail |-> avail,
                   ret |-> IF avail /\ call.doc.openable /\ Len(call.doc.pages) >= 1
                                 /\ call.doc.pages[1].ocr.ok
                           THEN call.doc.pages[1].ocr.text ELSE NoText]
    /\ UNCHANGED <<dirs, files, impl, pytesseract_available, celery, django, legacy>>

ExtractNext ==
    \/ ExtractEmployeeInfo \/ FindEmployeeInfo \/ ExtractPeriodFromDates \/ FindPeriodInfo
    \/ ExtractTextWithFallback \/ ExtractTextFromPdf \/ ExtractWithOcr

ExtractSpec == ExtractInit /\ [][ExtractNext]_vars

\* two uploads, each sent to its own task; the workers interleave
ConcurrentInit ==
    /\ impl = "celery" /\ pytesseract_available = TRUE
    /\ dirs = DeployedDirs
    /\ call = NoCall
    /\ django = DjangoInit(FALSE)
    /\ legacy = LegacyInit(<<Comp("out", "")>>, FALSE, 0)
    /\ \E docs \in [ConcurrentTaskIds -> ConcurrentDocuments] :
          /\ celery = [t \in ConcurrentTaskIds |-> CeleryInit(t, docs[t])]
          /\ files = [q \in {upload_path(t) : t \in ConcurrentTaskIds} |->
                         docs[CHOOSE t \in ConcurrentTaskIds : upload_path(t) = q]]

ConcurrentNext == \E t \in ConcurrentTaskIds : CeleryNext(t)

ConcurrentSpec == ConcurrentInit /\ [][ConcurrentNext]_vars

\* the runs of Spec, where a task id that has run may run again
RerunNext == Next \/ \E t \in TaskIds : Rerun(t)

RerunSpec == Init /\ [][RerunNext]_vars

(***************************************************************************)
(* Properties.                                                             *)
(***************************************************************************)
InLoop(t) == celery[t].pc \in {"loop", "page"}

NotFound == "Informations employé non trouvées"

\* everything that exists at or below p
Under(p) == {q \in dirs \cup DOMAIN files : IsPrefix(p, q)}

\* C1: every page the loop has passed has exactly one result, whose final path
\* is not empty and names a file that holds the page, also when no identity was
\* found (a page whose copy the filesystem refused apart)
C1_EveryPageWritten ==
    /\ \A t \in TaskIds :
          InLoop(t) =>
             /\ Len(celery[t].processed_files) = celery[t].idx
             /\ \A i \in 1..celery[t].idx :
                   /\ celery[t].processed_files[i] # <<>>
                   /\ celery[t].processed_files[i] \in DOMAIN files
                   /\ files[celery[t].processed_files[i]].pages[1].no = i
    /\ django.pc = "loop" =>
          /\ Len(django.pages) = django.next - 1
          /\ \A i \in 1..Len(django.pages) :
                django.pages[i].error_message # "copy failed" =>
                   /\ django.pages[i].file_path # <<>>
                   /\ django.pages[i].file_path \in DOMAIN files

\* C2: within a task the final paths of the written pages are pairwise
\* distinct, and the file at each of them still holds the page written there
C2_DistinctFinalPaths ==
    /\ \A t \in TaskIds :
          /\ \A i, j \in 1..Len(celery[t].log) :
                i # j => celery[t].log[i].final_path # celery[t].log[j].final_path
          /\ celery[t].pc \in {"loop", "page", "move"} =>
                \A i \in 1..Len(celery[t].log) :
                   /\ celery[t].log[i].final_path \in DOMAIN files
                   /\ files[celery[t].log[i].final_path].pages[1].no = celery[t].log[i].no
    /\ \A i, j \in 1..Len(django.pages) :
          (i # j /\ django.pages[i].success /\ django.pages[j].success)
             => django.pages[i].file_path # django.pages[j].file_path
    /\ \A i \in 1..Len(django.pages) :
          django.pages[i].success =>
             /\ django.pages[i].file_path \in DOMAIN files
             /\ files[django.pages[i].file_path].pages[1].no = django.pages[i].no

\* two pages of one task resolved to the same name in the same folder
C2_Witness ==
    \E t \in TaskIds :
       /\ Len(celery[t].log) = 2
       /\ celery[t].log[1].filename = celery[t].log[2].filename
       /\ celery[t].log[1].employee_dir = celery[t].log[2].employee_dir

C3_Allowed ==
    { <<"PENDING", "PROGRESS">>, <<"PROGRESS", "PROGRESS">>,
      <<"PROGRESS", "SUCCESS">>, <<"PROGRESS", "FAILURE">> }

C3_Observable(t) == <<celery[t].state, celery[t].meta, celery[t].result>>

C4_PageFailureNotFatal ==
    /\ \A t \in TaskIds :
          InLoop(t) =>
             \A i \in 1..Len(celery[t].log) :
                ~celery[t].log[i].found => celery[t].log[i].final_path \in DOMAIN files
    /\ \A i \in 1..Len(django.pages) :
          django.pages[i].error_message = NotFound =>
             /\ django.pages[i].file_path # <<>>
             /\ django.pages[i].file_path \in DOMAIN files

\* C5: once a task has ended in failure none of its temporary directories
\* exists any more and the uploaded input is gone
C5_CleanupOnFailure ==
    /\ \A t \in TaskIds :
          celery[t].state = "FAILURE" =>
             /\ Under(task_temp_dir(t)) = {}
             /\ celery[t].input_pdf_path \notin DOMAIN files
    /\ django.status = "failed" =>
          /\ Under(split_dir) = {}
          /\ pdf_path \notin DOMAIN files

\* C6: SUCCESS is stored only when every page is placed and the tree has been
\* moved to the output directory, and file_count is the number of pages of the
\* source document
C6_SuccessAfterMove ==
    \A t \in TaskIds :
       /\ celery[t].pc \in {"loop", "page", "move", "remove_input"} =>
             Len(celery[t].page_files) = Len(files[celery[t].input_pdf_path].pages)
       /\ celery[t].state = "SUCCESS" =>
             /\ celery[t].idx = Len(celery[t].page_files)
             /\ celery[t].result.file_count = Len(celery[t].page_files)
             /\ Under(final_dir(t)) = {}
             /\ \A i \in 1..Len(celery[t].log) :
                   LET q == Rebase(celery[t].log[i].final_path, final_dir(t), output_dir(t))
                   IN  q \in DOMAIN files /\ files[q].pages[1].no = i

C6_Witness ==
    \E t \in TaskIds : celery[t].state = "SUCCESS" /\ celery[t].result.file_count = 2

\* C7: the employee count of a success result counts the identities that were
\* really extracted, not the folders of fallback identities
C7_CountExcludesFallback ==
    \A t \in TaskIds :
       celery[t].result.tag = "result" =>
          celery[t].result.employee_count =
             Cardinality({celery[t].log[i].matricule :
                             i \in {j \in 1..Len(celery[t].log) : celery[t].log[j].found}})

\* C8: a page on which no identity pattern matches is filed, and it is not
\* counted among the failed pages
C8_NoIdentityIsNoFailure ==
    /\ \A i \in 1..Len(django.pages) :
          django.pages[i].error_message = NotFound => django.pages[i].success
    /\ django.failed_pages =
          Cardinality({i \in 1..Len(django.pages) :
                          django.pages[i].error_message = "copy failed"})

\* C9: PROGRESS is never the state of a task that is before or inside the split
C9_ProgressAfterSplit ==
    \A t \in TaskIds : celery[t].state = "PROGRESS" => celery[t].pc \notin {"start", "split"}

\* C9 as the code has it: the first PROGRESS, 'Splitting PDF', is emitted when
\* the temporary directories exist and before the split starts; the updates
\* that name a page or the organizing step come only after the split returned
C9_ProgressBeforeSplit ==
    \A t \in TaskIds :
       /\ celery[t].pc = "start" => celery[t].state = "PENDING"
       /\ celery[t].pc = "split" =>
             /\ celery[t].state = "PROGRESS" /\ celery[t].meta = "Splitting PDF"
             /\ {pages_dir(t), final_dir(t)} \subseteq dirs
             /\ Under(pages_dir(t)) = {pages_dir(t)}
       /\ celery[t].meta \notin {"", "Splitting PDF"} =>
             /\ celery[t].pc \notin {"start", "split"}
             /\ celery[t].state # "PENDING"

C9_Witness ==
    \E t \in TaskIds : celery[t].pc = "split" /\ celery[t].state = "PROGRESS"

\* the name the collision rule gives in directory d for the resolved name f
C10_Resolved(d, f) ==
    LET named(n) == os_path_join(d, <<Comp(f.stem \o "_" \o ToString(n), f.ext)>>)
    IN  IF ~os_path_exists(os_path_join(d, <<f>>)) THEN os_path_join(d, <<f>>)
        ELSE named(Min({n \in 1..(MaxPages + 1) : ~os_path_exists(named(n))}))

\* C10: the path a page is given is the resolved name in the target directory
\* when that is free, and otherwise <stem>_<n><ext> in the target directory
\* for the smallest n >= 1 that is free
C10_CollisionResolution ==
    [][/\ \A t \in TaskIds :
             Len(celery[t].log') > Len(celery[t].log) =>
                Last(celery[t].log').final_path =
                   C10_Resolved(Last(celery[t].log').employee_dir,
                                Last(celery[t].log').filename)
       /\ (Len(django.pages') > Len(django.pages) /\ Last(django.pages').file_path # <<>>)
             => Last(django.pages').file_path
                   = C10_Resolved(renamed_dir, Last(django.pages').planned)
       /\ Len(legacy.log') > Len(legacy.log) =>
             Last(legacy.log').new_path =
                C10_Resolved(Last(legacy.log').target_dir, Last(legacy.log').filename)
      ]_vars

\* C11: a second run of a task id on the same upload and output root is not
\* stopped by the output directory of the first run, leaves every file of the
\* first run as it was, and stores each of its pages beside them, in the
\* employee's folder of the output directory
C11_SecondRunBesideFirst ==
    \A t \in TaskIds :
        celery[t].run = 2 =>
            /\ celery[t].pc = "move" =>
                    ~os_path_exists(real_dst(final_dir(t), output_dir(t)))
            /\ celery[t].pc = "done" /\ celery[t].state = "SUCCESS" =>
                    /\ \A q \in DOMAIN celery[t].earlier :
                            q \in DOMAIN files /\ files[q] = celery[t].earlier[q]
                    /\ \A i \in DOMAIN celery[t].log :
                          \E q \in DOMAIN files \ DOMAIN celery[t].earlier :
                            /\ Parent(q) = Rebase(celery[t].log[i].employee_dir,
                                                   final_dir(t), output_dir(t))
                            /\ files[q] = Doc(<<celery[t].upload.pages[celery[t].log[i].no]>>)

\* the paths of task t: its temporary directory, its output directory and its
\* upload
C12_Owns(t, p) ==
    IsPrefix(task_temp_dir(t), p) \/ IsPrefix(output_dir(t), p) \/ p = upload_path(t)

\* the paths a step creates, writes, moves or deletes
C12_Touched ==
    {p \in dirs \cup dirs' : (p \in dirs) # (p \in dirs')}
      \cup {p \in DOMAIN files \cup DOMAIN files' :
               \/ p \notin DOMAIN files \/ p \notin DOMAIN files'
               \/ files[p] # files'[p]}

\* C12: of two tasks with distinct ids that run at the same time, every step
\* of one creates, writes, moves and deletes only paths of its own temporary
\* directory, its own output directory and its own upload, none of which is
\* a path of the other task
C12_PathsPartitioned ==
    [][\A t \in DOMAIN celery :
          celery'[t] # celery[t] =>
              \A p \in C12_Touched :
                  /\ C12_Owns(t, p)
                  /\ \A u \in DOMAIN celery \ {t} : ~C12_Owns(u, p)]_vars

\* one task is about to move its files to the output while the other is in
\* its page loop, each with a page filed
C12_Witness ==
    \E t, u \in DOMAIN celery :
        /\ t # u
        /\ celery[t].pc = "move" /\ celery[u].pc = "loop"
        /\ \E p \in DOMAIN files : IsPrefix(final_dir(t), p)
        /\ \E p \in DOMAIN files : IsPrefix(final_dir(u), p)

\* C13: two different pages of one task that both get a fallback identity get
\* different fallback employee ids and different folders, whatever the times
\* at which they are processed
C13_FallbackIdsDistinct ==
    \A t \in TaskIds : \A i, j \in DOMAIN celery[t].log :
        (i # j /\ ~celery[t].log[i].found /\ ~celery[t].log[j].found) =>
            /\ celery[t].log[i].matricule # celery[t].log[j].matricule
            /\ celery[t].log[i].employee_dir # celery[t].log[j].employee_dir

\* two fallback pages of one task, processed within the same second
C13_Witness ==
    \E t \in TaskIds : \E i, j \in DOMAIN celery[t].log :
        /\ i # j /\ ~celery[t].log[i].found /\ ~celery[t].log[j].found
        /\ \E now \in Times :
              /\ celery[t].log[i].matricule = "UNKNOWN_" \o now.hms \o "_" \o Pad3(i)
              /\ celery[t].log[j].matricule = "UNKNOWN_" \o now.hms \o "_" \o Pad3(j)

\* C14: the file of a fallback page is named from its fallback identity,
\* '<employeeId>_<lastName>_<firstName>_<month><year>.pdf' with
\* employeeId 'UNKNOWN_<HHMMSS>_<page>' and both names 'UNKNOWN_<page>', so
\* its name starts with the name of its folder
C14_FallbackFilename ==
    \A t \in TaskIds : \A i \in DOMAIN celery[t].log :
        ~celery[t].log[i].found =>
            /\ \E now \in Times :
                  celery[t].log[i].matricule = "UNKNOWN_" \o now.hms \o "_" \o Pad3(i)
            /\ Last(celery[t].log[i].employee_dir) = Comp(celery[t].log[i].matricule, "")
            /\ celery[t].log[i].filename =
                  Comp(celery[t].log[i].matricule \o "_UNKNOWN_" \o Pad3(i)
                         \o "_UNKNOWN_" \o Pad3(i) \o "_"
                         \o celery[t].log[i].period_info[1]
                         \o celery[t].log[i].period_info[2], ".pdf")

\* C15: a split that succeeds on a source of N pages returns exactly N
\* single-page files in source order, the i-th of them named by the ordinal i
\* (counted from one) and holding exactly the i-th page of the source, and it
\* leaves the source as it was
C15_SplitInOrder ==
    [][/\ \A t \in TaskIds :
            (celery[t].pc = "split" /\ celery'[t].pc = "loop") =>
                LET source == files[celery[t].input_pdf_path]
                    units  == celery'[t].page_files
                IN  /\ Len(units) = Len(source.pages)
                    /\ \A i \in DOMAIN units :
                          /\ units[i] = temp_page_path(pages_dir(t), i)
                          /\ units[i] \in DOMAIN files'
                          /\ files'[units[i]] = Doc(<<source.pages[i]>>)
                          /\ source.pages[i].no = i
                    /\ celery[t].input_pdf_path \in DOMAIN files'
                    /\ files'[celery[t].input_pdf_path] = source
       /\ (django.pc = "split" /\ django'.pc = "loop") =>
                LET source == files[pdf_path]
                    units  == django'.split_files
                IN  /\ Len(units) = Len(source.pages)
                    /\ django'.total_pages = Len(source.pages)
                    /\ \A i \in DOMAIN units :
                          /\ units[i] = page_path(i)
                          /\ units[i] \in DOMAIN files'
                          /\ files'[units[i]] = Doc(<<source.pages[i]>>)
                    /\ pdf_path \in DOMAIN files' /\ files'[pdf_path] = source]_vars

\* a source of two different pages has just been split
C15_Witness ==
    \E t \in TaskIds :
        /\ impl = "celery" /\ celery[t].pc = "loop" /\ celery[t].idx = 0
        /\ Len(celery[t].page_files) = 2
        /\ celery[t].input_pdf_path \in DOMAIN files
        /\ files[celery[t].input_pdf_path].pages[1].native
              # files[celery[t].input_pdf_path].pages[2].native
        /\ \A i \in 1..2 : celery[t].page_files[i] \in DOMAIN files

\* C16: a task whose source cannot be opened or has zero pages fails at the
\* split and never enters the page loop; no task is in SUCCESS, or completed,
\* with zero pages processed
C16_CorruptDocumentFails ==
    /\ \A t \in TaskIds :
          /\ (impl = "celery"
                /\ (~celery[t].upload.openable \/ Len(celery[t].upload.pages) = 0)) =>
                    /\ celery[t].pc \in {"start", "split", "except", "done"}
                    /\ celery[t].state # "SUCCESS"
          /\ celery[t].state = "SUCCESS" => celery[t].result.file_count >= 1
    /\ django.status = "completed" =>
          django.total_pages >= 1 /\ django.processed_pages >= 1

\* the patterns of extract_employee_info that match the text
C17_Matching(text) == {i \in 0..(NumPatterns - 1) : patterns(i, text).ok}

\* the patterns of find_employee_info that match the text
C17_RenamerMatching(text) == {i \in 0..1 : renamer_patterns(i, text).ok}

\* C17: identity extraction returns what the groups of the lowest-index
\* pattern that matches give, whatever the later patterns capture, and
\* nothing when no pattern matches
C17_FirstMatchWins ==
    /\ call.fn = "extract_employee_info" =>
          IF C17_Matching(call.text) = {} THEN call.ret = None
          ELSE call.ret = GroupsToInfo(Min(C17_Matching(call.text)),
                                       patterns(Min(C17_Matching(call.text)), call.text).g)
    /\ call.fn = "find_employee_info" =>
          IF C17_RenamerMatching(call.text) = {} THEN call.ret = None
          ELSE LET g == renamer_patterns(Min(C17_RenamerMatching(call.text)), call.text).g
               IN  call.ret = Info(StrInt(g[3]), g[1].w, g[2].w)

\* a text on which two patterns match with different groups has been given
\* the identity of the earlier one
C17_Witness ==
    /\ call.fn = "extract_employee_info"
    /\ \E i, j \in C17_Matching(call.text) :
          /\ i < j /\ i = Min(C17_Matching(call.text))
          /\ GroupsToInfo(i, patterns(i, call.text).g).tag = "info"
          /\ GroupsToInfo(j, patterns(j, call.text).g).tag = "info"
          /\ GroupsToInfo(i, patterns(i, call.text).g)
                # GroupsToInfo(j, patterns(j, call.text).g)
          /\ call.ret = GroupsToInfo(i, patterns(i, call.text).g)

\* C18: the one pattern that captures the id before the names is the one
\* line 86 treats apart: for every pattern that matches, the group handed to
\* int() holds digits, so extract_employee_info returns a triple or None and
\* never raises
C18_NoConversionError ==
    call.fn = "extract_employee_info" =>
        /\ \A i \in C17_Matching(call.text) :
              IF i = 5 THEN patterns(i, call.text).g[1].num
              ELSE patterns(i, call.text).g[3].num
        /\ call.ret.tag \in {"info", "none"}

\* the period the chain of C19 gives: the start date of the first date-range
\* pattern whose match has a month of 1..12, else the month name with the
\* first 20xx year of the text or the default year, else the wall clock
C19_Chain(text, now) ==
    LET ranges == {i \in 0..(NumPeriodPatterns - 1) :
                      /\ PeriodStarts(i, text) # {}
                      /\ DigitsToInt(text[Min(PeriodStarts(i, text))].g[2]) \in 1..12}
        months == {i \in 1..Len(text) : text[i].mon # ""}
        years  == {i \in 1..Len(text) : TokYear20(text[i]) # <<>>}
    IN  IF ranges # {}
        THEN <<mois_abbr[DigitsToInt(text[Min(PeriodStarts(Min(ranges), text))].g[2])],
               ExpandYear(text[Min(PeriodStarts(Min(ranges), text))].g[3])>>
        ELSE IF months # {}
        THEN <<text[Min(months)].mon,
               IF years = {} THEN DefaultYear
               ELSE DigitsStr(TokYear20(text[Min(years)]))>>
        ELSE <<mois_abbr[now.month], ToString(now.year)>>

\* C19: period extraction follows the chain date range, month name, wall
\* clock, each step tried only when the one before found nothing; a date
\* range whose month is not in 1..12 is passed over, never answered with a
\* default month
C19_PeriodChain ==
    call.fn \in {"extract_period_from_dates", "find_period_info"} =>
        call.ret = C19_Chain(call.text, call.now)

\* the text has no date range, no month name and no year
C20_NoPeriodIn(text) ==
    /\ \A i \in 0..(NumPeriodPatterns - 1) : PeriodStarts(i, text) = {}
    /\ \A i \in 1..Len(text) : text[i].mon = "" /\ TokYear20(text[i]) = <<>>

\* neither the text layer nor the OCR of the page gives a text with a period
C20_NoPeriodOn(pg) ==
    /\ pg.native.ok => C20_NoPeriodIn(pg.native.text)
    /\ pg.ocr.ok => C20_NoPeriodIn(pg.ocr.text)

\* C20: a page whose acquired text has no date range, no month name and no
\* year, a page with no text at all included, is recorded with the month and
\* the year of the wall clock at the time it was processed
C20_WallClockPeriod ==
    \A t \in TaskIds : \A i \in DOMAIN celery[t].log :
        C20_NoPeriodOn(celery[t].upload.pages[celery[t].log[i].no]) =>
            /\ celery[t].log[i].clock # NoClock
            /\ celery[t].log[i].period_info =
                  <<mois_abbr[celery[t].log[i].clock.month],
                    ToString(celery[t].log[i].clock.year)>>

\* the strings of exactly four digits
C21_FourDigits == {DigitsStr(<<a, b, c, d>>) : a, b, c, d \in 0..9}

\* C21: the period extracted from any text, a date range with a year of two,
\* three or four digits included, has a month that is one of the twelve
\* codes and a year that is a string of exactly four digits
C21_PeriodWellFormed ==
    call.fn = "extract_period_from_dates" =>
        /\ Len(call.ret) = 2
        /\ call.ret[1] \in {mois_abbr[m] : m \in 1..12}
        /\ call.ret[2] \in C21_FourDigits

\* a call whose recognition of the first page did not give a text: the engine
\* raised, or pytesseract is not installed
C22_RecognitionFailed ==
    /\ call.doc.openable /\ Len(call.doc.pages) >= 1
    /\ \/ call.fn = "extract_text_from_pdf" /\ ~call.doc.pages[1].ocr.ok
       \/ /\ call.fn = "extract_with_ocr"
          /\ ~call.avail \/ ~call.doc.pages[1].ocr.ok
       \/ /\ call.fn = "extract_text_with_fallback" /\ call.use_ocr
          /\ call.doc.pages[1].native.ok /\ ~call.doc.pages[1].ocr.ok

\* C22: a text acquisition whose recognition call raises, or whose recognition
\* engine is not installed, returns the empty text
C22_FailedRecognitionGivesEmptyText ==
    call.fn \in {"extract_text_with_fallback", "extract_text_from_pdf", "extract_with_ocr"}
        => (C22_RecognitionFailed => call.ret = NoText)

\* the pages of the run that were filed under a fallback identity
C23_FallbackPages(t) == {i \in 1..Len(celery[t].log) : ~celery[t].log[i].found}

\* C23: the result of a task in state SUCCESS carries, beside the number of
\* files and the number of employees, a count that is the number of pages of
\* the run for which no identity was extracted
C23_SuccessReportsFallbackCount ==
    \A t \in TaskIds :
       celery[t].state = "SUCCESS" =>
          \E f \in DOMAIN celery[t].result
                     \ {"tag", "status", "output_dir", "file_count", "employee_count"} :
             celery[t].result[f] = Cardinality(C23_FallbackPages(t))

\* the pages processed before the i-th that resolved to the folder and the
\* base filename of the i-th
C24_SameNameBefore(t, i) ==
    {j \in 1..(i - 1) : /\ celery[t].log[j].employee_dir = celery[t].log[i].employee_dir
                        /\ celery[t].log[j].filename = celery[t].log[i].filename}

\* C24: the i-th page processed by a task is page i of the document and the
\* files of all earlier pages are written when it is processed; of the pages
\* that resolve to the same folder and the same base filename the first keeps
\* the name and the n-th after it gets the suffix _n
C24_SuffixesInPageOrder ==
    \A t \in TaskIds :
       /\ celery[t].pc \in {"loop", "page"} =>
             \A i \in 1..Len(celery[t].log) : celery[t].log[i].final_path \in DOMAIN files
       /\ \A i \in 1..Len(celery[t].log) :
             LET n    == Cardinality(C24_SameNameBefore(t, i))
                 path == os_path_join(celery[t].log[i].employee_dir,
                                      <<celery[t].log[i].filename>>)
             IN  /\ celery[t].log[i].no = i
                 /\ celery[t].log[i].final_path =
                       IF n = 0 THEN path
                       ELSE Parent(path) \o
                              <<Comp(celery[t].log[i].filename.stem \o "_" \o ToString(n),
                                     celery[t].log[i].filename.ext)>>

\* both pages of a document resolved to the same name in the same folder and
\* the second one was written with the suffix _1
C24_Witness ==
    \E t \in TaskIds :
       /\ Len(celery[t].log) = 2
       /\ C24_SameNameBefore(t, 2) = {1}
       /\ celery[t].log[2].final_path # celery[t].log[1].final_path
       /\ celery[t].log[2].final_path \in DOMAIN files

\* the folder of an employeeId in the tree the task writes its pages to
C25_Folder(t, matricule) == final_dir(t) \o <<Comp(matricule, "")>>

\* C25: while a task processes its pages, the directories of its tree are
\* exactly the folders of the employeeIds of the pages processed so far, one
\* per employeeId, and the files of the tree are exactly the files of these
\* pages, each directly in the folder of its own employeeId
C25_OneFolderPerEmployee ==
    \A t \in TaskIds :
       celery[t].pc \in {"loop", "page", "move"} =>
          /\ {d \in dirs : IsPrefix(final_dir(t), d) /\ d # final_dir(t)}
                = {C25_Folder(t, celery[t].log[i].matricule) : i \in 1..Len(celery[t].log)}
          /\ {q \in DOMAIN files : IsPrefix(final_dir(t), q)}
                = {celery[t].log[i].final_path : i \in 1..Len(celery[t].log)}
          /\ \A i \in 1..Len(celery[t].log) :
                /\ Parent(celery[t].log[i].final_path)
                      = C25_Folder(t, celery[t].log[i].matricule)
                /\ files[celery[t].log[i].final_path].pages[1].no = celery[t].log[i].no

\* two pages of one employeeId that resolved to different names were written
\* to the one folder of that employeeId, beside nothing else
C25_Witness ==
    \E t \in TaskIds :
       /\ celery[t].pc = "loop" /\ Len(celery[t].log) = 2
       /\ celery[t].log[1].matricule = celery[t].log[2].matricule
       /\ celery[t].log[1].filename # celery[t].log[2].filename
       /\ celery[t].log[1].final_path # celery[t].log[2].final_path
       /\ Cardinality({d \in dirs : IsPrefix(final_dir(t), d) /\ d # final_dir(t)}) = 1

\* two pages of different employeeIds were written, each to its own folder
C25_TwoFolders ==
    \E t \in TaskIds :
       /\ celery[t].pc = "loop" /\ Len(celery[t].log) = 2
       /\ celery[t].log[1].matricule # celery[t].log[2].matricule
       /\ Cardinality({d \in dirs : IsPrefix(final_dir(t), d) /\ d # final_dir(t)}) = 2

\* the page has a text layer that can be read and is not empty
C26_HasNativeText(pg) == pg.native.ok /\ pg.native.text # NoText

\* what the text layer of the page gives: an identity or none
C26_NativeIdentity(pg) ==
    IF extract_employee_info(pg.native.text) = Raise THEN None
    ELSE extract_employee_info(pg.native.text)

\* C26: for a page with a non-empty text layer, processed without forced OCR,
\* the Celery task does not call the recognition engine and both entry points
\* of src/app file the page under the identity its text layer gives
C26_NativeTextStopsAcquisition ==
    /\ \A t \in TaskIds : \A i \in 1..Len(celery[t].log) :
          LET pg == celery[t].upload.pages[celery[t].log[i].no]
          IN  C26_HasNativeText(pg) =>
                 /\ ~celery[t].log[i].ocr_called
                 /\ celery[t].log[i].found = (C26_NativeIdentity(pg).tag = "info")
                 /\ celery[t].log[i].found =>
                       celery[t].log[i].matricule = C26_NativeIdentity(pg).matricule
    /\ \A i \in 1..Len(legacy.log) :
          (~legacy.use_ocr /\ ~legacy.log[i].raised) =>
             LET pg == files[legacy.log[i].new_path].pages[1]
             IN  C26_HasNativeText(pg) =>
                    legacy.log[i].found = (C26_NativeIdentity(pg).tag = "info")

\* C27: a task in state FAILURE has no output directory under the output
\* root; a task in state SUCCESS has its output directory, with the file of
\* every page of the upload in it, and no file is left in its temporary pages
\* directory
C27_AllOrNothing ==
    \A t \in TaskIds :
       /\ celery[t].state = "FAILURE" => ~os_path_exists(output_dir(t))
       /\ celery[t].state = "SUCCESS" =>
             /\ output_dir(t) \in dirs
             /\ \A n \in 1..Len(celery[t].upload.pages) :
                   Cardinality({q \in DOMAIN files :
                                   /\ IsPrefix(output_dir(t), q)
                                   /\ files[q] = Doc(<<celery[t].upload.pages[n]>>)}) = 1
             /\ {q \in DOMAIN files : IsPrefix(pages_dir(t), q)} = {}

C28_Allowed ==
    {<<"pending", "processing">>, <<"processing", "completed">>, <<"processing", "failed">>}

\* the ProcessedPage rows of split page n
C28_Rows(n) == {i \in 1..Len(django.pages) : django.pages[i].page_number = n}

====
